---- MODULE Spec2Model ----
(***************************************************************************)
(* Environment-configuration validation of pdx-diy (src/env.js): the       *)
(* createEnv call, the schema it declares, and the two PostHog divergence  *)
(* warnings emitted at module evaluation.                                  *)
(*                                                                         *)
(* A JavaScript value read from process.env is either undefined or a       *)
(* string.  A string is a sequence of lexical tokens: words and the        *)
(* punctuation tokens ":" and "//", so that "https://test.posthog.com" is  *)
(* <<"https", ":", "//", "test.posthog.com">> and "" is << >>.             *)
(***************************************************************************)
EXTENDS Integers, Sequences, FiniteSets, Bags, TLC

\* Number of assignments to process.env explored in one behaviour.
MaxEnvChanges == 3

----------------------------------------------------------------------------
\* Values

Undefined == [def |-> FALSE, chars |-> << >>]
Str(c) == [def |-> TRUE, chars |-> c]
Word(w) == Str(<<w>>)
EmptyString == Str(<< >>)

\* JavaScript truthiness of a string-or-undefined value.
Truthy(v) == v.def /\ v.chars # << >>

Punctuation == {":", "//"}
IsWord(t) == t \notin Punctuation

\* Schemes for which the URL parser requires a host.
SpecialSchemes == {"http", "https", "ws", "wss", "ftp", "file"}

RECURSIVE SkipSlashes(_, _)
SkipSlashes(c, i) ==
    IF i <= Len(c) /\ c[i] = "//" THEN SkipSlashes(c, i + 1) ELSE i

\* new URL(s) does not throw: s starts with a scheme followed by ":", and a
\* special scheme is followed by a non-empty host.
IsUrl(c) ==
    /\ Len(c) >= 2
    /\ IsWord(c[1])
    /\ c[2] = ":"
    /\ (c[1] \in SpecialSchemes =>
            LET i == SkipSlashes(c, 3) IN i <= Len(c) /\ IsWord(c[i]))

----------------------------------------------------------------------------
\* Schema

ServerKeys == <<"AUTH_SECRET", "AUTH_RESEND_KEY", "AUTH_RESEND_FROM",
                "DATABASE_URL", "NODE_ENV", "POSTHOG_KEY", "POSTHOG_HOST">>
ClientKeys == <<"NEXT_PUBLIC_POSTHOG_KEY", "NEXT_PUBLIC_POSTHOG_HOST">>

Range(s) == {s[i] : i \in 1..Len(s)}
Fields == Range(ServerKeys) \cup Range(ClientKeys)
EnvNames == Fields \cup {"SKIP_ENV_VALIDATION"}

NodeEnvs == {"development", "test", "production"}

\* Variant: AUTH_SECRET is z.string().optional() in every mode.
SchemaOfSecretOptional(f, rawNodeEnv) ==
    CASE f = "AUTH_SECRET" ->
            [kind |-> "string", optional |-> TRUE, default |-> Undefined]
      [] f \in {"DATABASE_URL", "POSTHOG_HOST", "NEXT_PUBLIC_POSTHOG_HOST"} ->
            [kind |-> "url", optional |-> FALSE, default |-> Undefined]
      [] f = "NODE_ENV" ->
            [kind |-> "enum", optional |-> FALSE,
             default |-> Word("development")]
      [] OTHER ->
            [kind |-> "string", optional |-> FALSE, default |-> Undefined]

\* The zod schema of one field; AUTH_SECRET depends on the raw NODE_ENV.
SchemaOf(f, rawNodeEnv) ==
    CASE f = "AUTH_SECRET" ->
            [kind |-> "string", optional |-> rawNodeEnv # Word("production"),
             default |-> Undefined]
      [] f \in {"DATABASE_URL", "POSTHOG_HOST", "NEXT_PUBLIC_POSTHOG_HOST"} ->
            [kind |-> "url", optional |-> FALSE, default |-> Undefined]
      [] f = "NODE_ENV" ->
            [kind |-> "enum", optional |-> FALSE,
             default |-> Word("development")]
      [] OTHER ->
            [kind |-> "string", optional |-> FALSE, default |-> Undefined]

\* Variant: the enum accepts every string.
ParseFieldEnumLoose(schema, v) ==
    IF ~v.def
    THEN IF schema.default.def THEN [ok |-> TRUE, out |-> schema.default]
         ELSE [ok |-> schema.optional, out |-> Undefined]
    ELSE CASE schema.kind = "string" -> [ok |-> TRUE, out |-> v]
           [] schema.kind = "url" -> [ok |-> IsUrl(v.chars), out |-> v]
           [] schema.kind = "enum" -> [ok |-> TRUE, out |-> v]

\* Variant: a field with a default is accepted when undefined, but the
\* default is not substituted.
ParseFieldNoDefault(schema, v) ==
    IF ~v.def
    THEN [ok |-> schema.optional \/ schema.default.def, out |-> Undefined]
    ELSE CASE schema.kind = "string" -> [ok |-> TRUE, out |-> v]
           [] schema.kind = "url" -> [ok |-> IsUrl(v.chars), out |-> v]
           [] schema.kind = "enum" ->
                [ok |-> \E m \in NodeEnvs : v = Word(m), out |-> v]

\* schema.safeParse(v) for one field: [ok, out].
ParseField(schema, v) ==
    IF ~v.def
    THEN IF schema.default.def THEN [ok |-> TRUE, out |-> schema.default]
         ELSE [ok |-> schema.optional, out |-> Undefined]
    ELSE CASE schema.kind = "string" -> [ok |-> TRUE, out |-> v]
           [] schema.kind = "url" -> [ok |-> IsUrl(v.chars), out |-> v]
           [] schema.kind = "enum" ->
                [ok |-> \E m \in NodeEnvs : v = Word(m), out |-> v]

\* Variant: emptyStringAsUndefined is off.
DeleteEmptyOff(runtimeEnv) == runtimeEnv

\* emptyStringAsUndefined: entries holding "" are deleted from runtimeEnv.
DeleteEmpty(runtimeEnv) ==
    [f \in Fields |-> IF runtimeEnv[f] = EmptyString THEN Undefined
                      ELSE runtimeEnv[f]]

\* Variant: parsing stops at the first key with an issue.
RECURSIVE ParseObjectShortCircuit(_, _, _, _)
ParseObjectShortCircuit(keys, input, rawNodeEnv, acc) ==
    IF keys = << >> THEN acc
    ELSE LET f == Head(keys)
             r == ParseField(SchemaOf(f, rawNodeEnv), input[f])
         IN IF r.ok
            THEN ParseObjectShortCircuit(Tail(keys), input, rawNodeEnv,
                    [data |-> [acc.data EXCEPT ![f] = r.out],
                     issues |-> acc.issues])
            ELSE [data |-> acc.data, issues |-> acc.issues \cup {f}]

\* z.object(shape).safeParse(input): every key of the shape is parsed, the
\* issues of all keys are collected, keys outside the shape are stripped.
RECURSIVE ParseObject(_, _, _, _)
ParseObject(keys, input, rawNodeEnv, acc) ==
    IF keys = << >> THEN acc
    ELSE LET f == Head(keys)
             r == ParseField(SchemaOf(f, rawNodeEnv), input[f])
         IN ParseObject(Tail(keys), input, rawNodeEnv,
                [data |-> IF r.ok THEN [acc.data EXCEPT ![f] = r.out]
                          ELSE acc.data,
                 issues |-> IF r.ok THEN acc.issues
                            ELSE acc.issues \cup {f}])

NoData == [f \in Fields |-> Undefined]

\* Variant: the validation error handler logs the issues and returns the
\* unvalidated runtimeEnv instead of throwing.
CreateEnvNoThrow(penv, browser) ==
    LET runtimeEnv == DeleteEmpty([f \in Fields |-> penv[f]])
        skip == Truthy(penv["SKIP_ENV_VALIDATION"])
        shape == IF browser THEN ClientKeys ELSE ServerKeys \o ClientKeys
        parsed == ParseObject(shape, runtimeEnv, penv["NODE_ENV"],
                              [data |-> NoData, issues |-> {}])
    IN IF skip
       THEN [ok |-> TRUE, data |-> runtimeEnv, issues |-> {},
             proxied |-> FALSE]
       ELSE IF parsed.issues # {}
            THEN [ok |-> TRUE, data |-> runtimeEnv, issues |-> parsed.issues,
                  proxied |-> FALSE]
            ELSE [ok |-> TRUE, data |-> parsed.data, issues |-> {},
                  proxied |-> TRUE]

\* Variant: with validation skipped the NODE_ENV default is still applied.
CreateEnvSkipDefaults(penv, browser) ==
    LET runtimeEnv == DeleteEmpty([f \in Fields |-> penv[f]])
        skip == Truthy(penv["SKIP_ENV_VALIDATION"])
        shape == IF browser THEN ClientKeys ELSE ServerKeys \o ClientKeys
        parsed == ParseObject(shape, runtimeEnv, penv["NODE_ENV"],
                              [data |-> NoData, issues |-> {}])
    IN IF skip
       THEN [ok |-> TRUE,
             data |-> [runtimeEnv EXCEPT !["NODE_ENV"] =
                          IF @ = Undefined THEN Word("development") ELSE @],
             issues |-> {}, proxied |-> FALSE]
       ELSE IF parsed.issues # {}
            THEN [ok |-> FALSE, data |-> NoData, issues |-> parsed.issues,
                  proxied |-> FALSE]
            ELSE [ok |-> TRUE, data |-> parsed.data, issues |-> {},
                  proxied |-> TRUE]

\* createEnv(opts) of src/env.js evaluated against a process environment:
\* [ok, data, issues, proxied].  On the server the server and client shapes
\* are parsed, in a browser the client shape only; the parsed data is
\* returned behind a proxy, the unvalidated runtimeEnv is returned as it is.
CreateEnv(penv, browser) ==
    LET runtimeEnv == DeleteEmpty([f \in Fields |-> penv[f]])
        skip == Truthy(penv["SKIP_ENV_VALIDATION"])
        shape == IF browser THEN ClientKeys ELSE ServerKeys \o ClientKeys
        parsed == ParseObject(shape, runtimeEnv, penv["NODE_ENV"],
                              [data |-> NoData, issues |-> {}])
    IN IF skip
       THEN [ok |-> TRUE, data |-> runtimeEnv, issues |-> {},
             proxied |-> FALSE]
       ELSE IF parsed.issues # {}
            THEN [ok |-> FALSE, data |-> NoData, issues |-> parsed.issues,
                  proxied |-> FALSE]
            ELSE [ok |-> TRUE, data |-> parsed.data, issues |-> {},
                  proxied |-> TRUE]

NoError == "none"
InvalidEnvError == "Invalid environment variables"
InvalidAccessError ==
    "Attempted to access a server-side environment variable on the client"

\* The proxy's get trap throws for a server-side variable read in a browser.
AccessThrows(r, browser, prop) ==
    r.proxied /\ browser /\ prop \notin Range(ClientKeys)

KeyWarning ==
    "[env] POSTHOG_KEY and NEXT_PUBLIC_POSTHOG_KEY differ; ensure they point to the same project."
HostWarning ==
    "[env] POSTHOG_HOST and NEXT_PUBLIC_POSTHOG_HOST differ; ensure they target the same ingestion host."

\* Variant: the warning is limited to NODE_ENV === "development".
DivergenceWarningDevOnly(r, penv, browser, a, b, msg) ==
    IF /\ ~browser
       /\ penv["NODE_ENV"] = Word("development")
       /\ Truthy(r.data[a]) /\ Truthy(r.data[b])
       /\ r.data[a] # r.data[b]
    THEN [threw |-> FALSE, msgs |-> <<msg>>]
    ELSE [threw |-> FALSE, msgs |-> << >>]

\* Variant: the NODE_ENV !== "production" conjunct is missing.
DivergenceWarningAnyMode(r, penv, browser, a, b, msg) ==
    IF /\ ~browser
       /\ Truthy(r.data[a]) /\ Truthy(r.data[b])
       /\ r.data[a] # r.data[b]
    THEN [threw |-> FALSE, msgs |-> <<msg>>]
    ELSE [threw |-> FALSE, msgs |-> << >>]

\* Variant: the two truthiness conjuncts are missing.
DivergenceWarningNoPresence(r, penv, browser, a, b, msg) ==
    IF /\ ~browser
       /\ penv["NODE_ENV"] # Word("production")
       /\ r.data[a] # r.data[b]
    THEN [threw |-> FALSE, msgs |-> <<msg>>]
    ELSE [threw |-> FALSE, msgs |-> << >>]

\* One of the two `if (...) console.warn(...)` statements after createEnv,
\* its && chain evaluated left to right: [threw, msgs].
DivergenceWarning(r, penv, browser, a, b, msg) ==
    LET none == [threw |-> FALSE, msgs |-> << >>]
        throw == [threw |-> TRUE, msgs |-> << >>]
    IN IF browser THEN none
       ELSE IF penv["NODE_ENV"] = Word("production") THEN none
       ELSE IF AccessThrows(r, browser, a) THEN throw
       ELSE IF ~Truthy(r.data[a]) THEN none
       ELSE IF AccessThrows(r, browser, b) THEN throw
       ELSE IF ~Truthy(r.data[b]) THEN none
       ELSE IF r.data[a] = r.data[b] THEN none
       ELSE [threw |-> FALSE, msgs |-> <<msg>>]

KeyCheck(r, penv, browser) ==
    DivergenceWarning(r, penv, browser,
                      "POSTHOG_KEY", "NEXT_PUBLIC_POSTHOG_KEY", KeyWarning)

HostCheck(r, penv, browser) ==
    DivergenceWarning(r, penv, browser,
                      "POSTHOG_HOST", "NEXT_PUBLIC_POSTHOG_HOST", HostWarning)

\* Variant: the host check is written before the key check.
ConsistencyChecksHostFirst(r, penv, browser) ==
    LET k == KeyCheck(r, penv, browser)
        h == HostCheck(r, penv, browser)
    IN IF h.threw THEN h
       ELSE [threw |-> k.threw, msgs |-> h.msgs \o k.msgs]

\* Variant: a divergence warning is raised as an error.
ConsistencyChecksFatal(r, penv, browser) ==
    LET k == KeyCheck(r, penv, browser)
        h == HostCheck(r, penv, browser)
    IN IF k.threw THEN k
       ELSE [threw |-> h.threw \/ k.msgs \o h.msgs # << >>,
             msgs |-> k.msgs \o h.msgs]

\* The statements after createEnv in order: the key check, then the host
\* check, which is not reached when the key check throws.
ConsistencyChecks(r, penv, browser) ==
    LET k == KeyCheck(r, penv, browser)
        h == HostCheck(r, penv, browser)
    IN IF k.threw THEN k
       ELSE [threw |-> h.threw, msgs |-> k.msgs \o h.msgs]

----------------------------------------------------------------------------
\* Environments

Https(host) == Str(<<"https", ":", "//", host>>)
Postgres(host) == Str(<<"postgresql", ":", "//", host>>)

\* The values a variable is set to.
ValuesOf(n) ==
    CASE n = "NODE_ENV" ->
            {Undefined, EmptyString, Word("development"), Word("test"),
             Word("production"), Word("staging")}
      [] n \in {"POSTHOG_KEY", "NEXT_PUBLIC_POSTHOG_KEY"} ->
            {Undefined, EmptyString, Word("server-key-123"),
             Word("client-key-456")}
      [] n \in {"POSTHOG_HOST", "NEXT_PUBLIC_POSTHOG_HOST"} ->
            {Undefined, EmptyString, Https("server.posthog.com"),
             Https("client.posthog.com"), Word("invalid-url")}
      [] n = "DATABASE_URL" ->
            {Undefined, EmptyString, Postgres("localhost"),
             Word("invalid-url"), Str(<<"https", ":", "//">>)}
      [] n = "SKIP_ENV_VALIDATION" ->
            {Undefined, EmptyString, Word("1"), Word("false")}
      [] n = "AUTH_SECRET" ->
            {Undefined, EmptyString, Word("production-secret")}
      [] n = "AUTH_RESEND_KEY" ->
            {Undefined, EmptyString, Word("test-resend-key")}
      [] n = "AUTH_RESEND_FROM" ->
            {Undefined, EmptyString, Word("test@example.com")}

\* No variable set.
EmptyEnvironment == [n \in EnvNames |-> Undefined]

\* The environment of the development test cases, keys and hosts matching.
TestEnvironment ==
    [n \in EnvNames |->
        CASE n = "AUTH_RESEND_KEY" -> Word("test-resend-key")
          [] n = "AUTH_RESEND_FROM" -> Word("test@example.com")
          [] n = "DATABASE_URL" -> Postgres("localhost")
          [] n = "NODE_ENV" -> Word("development")
          [] n \in {"POSTHOG_KEY", "NEXT_PUBLIC_POSTHOG_KEY"} ->
                Word("server-key-123")
          [] n \in {"POSTHOG_HOST", "NEXT_PUBLIC_POSTHOG_HOST"} ->
                Https("server.posthog.com")
          [] OTHER -> Undefined]

\* The environment of the production test case: keys and hosts differing.
ProductionEnvironment ==
    [TestEnvironment EXCEPT
        !["NODE_ENV"] = Word("production"),
        !["AUTH_SECRET"] = Word("production-secret"),
        !["NEXT_PUBLIC_POSTHOG_KEY"] = Word("client-key-456"),
        !["NEXT_PUBLIC_POSTHOG_HOST"] = Https("client.posthog.com")]

----------------------------------------------------------------------------
\* Auth configuration (src/server/auth/config.ts)

NoAuthConfig ==
    [loaded |-> FALSE, strategy |-> "none", jwt |-> FALSE,
     jwtCallback |-> FALSE, apiKey |-> Undefined, from |-> Undefined]

\* The authConfig object literal: the Resend provider is configured from the
\* snapshot, the session strategy, the jwt settings and the jwt callback
\* from process.env.NODE_ENV.
AuthConfigOf(penv, snapshot) ==
    LET production == penv["NODE_ENV"] = Word("production") IN
    [loaded |-> TRUE,
     strategy |-> IF production THEN "jwt" ELSE "database",
     jwt |-> production,
     jwtCallback |-> production,
     apiKey |-> snapshot["AUTH_RESEND_KEY"],
     from |-> snapshot["AUTH_RESEND_FROM"]]

----------------------------------------------------------------------------
\* Server-side PostHog client (src/server/posthog.ts)

\* Calls of the exported functions of the module in one behaviour.
MaxCalls == 4

\* The instances of the module evaluated in one process (hot reload).
Instances == {1, 2}

NoResult ==
    [op |-> "none", client |-> 0, outcome |-> "none", logged |-> "none",
     failed |-> FALSE, value |-> "undefined"]

\* String.prototype.trim on a token sequence, " " being a whitespace token.
RECURSIVE TrimStart(_)
TrimStart(c) ==
    IF c # << >> /\ Head(c) = " " THEN TrimStart(Tail(c)) ELSE c

RECURSIVE TrimEnd(_)
TrimEnd(c) ==
    IF c # << >> /\ c[Len(c)] = " "
    THEN TrimEnd(SubSeq(c, 1, Len(c) - 1)) ELSE c

Trim(v) == IF v.def THEN Str(TrimEnd(TrimStart(v.chars))) ELSE v

\* The `properties` argument of a helper: undefined, null, an array or an
\* object, with its own enumerable entries as <<key, value>> pairs.
NoProperties == [kind |-> "undefined", entries |-> {}]
PropertyArguments ==
    {NoProperties,
     [kind |-> "object", entries |-> {<<"page", "home">>}],
     [kind |-> "array", entries |-> {}]}

DistinctIds == {Word("user123"), Str(<<" ", "user123", " ">>), EmptyString}
Events == {Word("test_event"), Str(<<" ">>)}

\* The argument of client.capture: { distinctId: trimmedDistinctId, event:
\* trimmedEvent, properties: { ...(properties ?? {}) } }.
CapturePayload(distinctId, event, properties) ==
    [distinctId |-> Trim(distinctId),
     event |-> Trim(event),
     properties |->
        [kind |-> "object",
         entries |-> IF properties.kind \in {"undefined", "null"} THEN {}
                     ELSE properties.entries]]

\* The argument of client.identify: { distinctId: trimmedDistinctId,
\* properties }.
IdentifyPayload(distinctId, properties) ==
    [distinctId |-> Trim(distinctId),
     event |-> Undefined,
     properties |-> properties]

\* The validation of `properties` in identifyUser.
PlainObjectOrUndefined(properties) ==
    properties.kind \in {"undefined", "object"}

FlagKeys == {Word("new_dashboard"), EmptyString}
GroupArguments ==
    {NoProperties,
     [kind |-> "object", entries |-> {<<"company", "acme-corp">>}]}

\* What the client's getAllFlags and isFeatureEnabled settle with:
\* "rejects", or the value they resolve to.
FlagsResponses == {"rejects", "null", "undefined", "flags"}
EnabledResponses == {"rejects", "null", "undefined", "true", "false"}

\* client.getAllFlags(distinctId, groups) as the client receives it.
GetAllFlagsPayload(distinctId, groups) ==
    [distinctId |-> distinctId, event |-> Undefined, properties |-> groups]

\* client.isFeatureEnabled(key, distinctId, groups) as the client receives
\* it, the flag key in the field `event`.
IsFeatureEnabledPayload(key, distinctId, groups) ==
    [distinctId |-> distinctId, event |-> key, properties |-> groups]

\* Variant: the client's result is returned as it is.
EnabledResultRaw(response) ==
    IF response = "rejects" THEN "false" ELSE response

\* `return result ?? false`, and `return false` in the catch block.
EnabledResult(response) ==
    IF response \in {"rejects", "null", "undefined"} THEN "false"
    ELSE response

\* `return flags ?? null`, and `return null` in the catch block.
FlagsResult(response) ==
    IF response \in {"rejects", "null", "undefined"} THEN "null"
    ELSE response

----------------------------------------------------------------------------
\* PostHogPageview (src/app/_components/posthog-pageview.tsx)

MaxRenders == 3

\* window.location.origin
Origin == "https://example.com"

\* usePathname() returns a path or null.
NullPathname == "null"

Pathnames == {NullPathname, "/", "/search"}

\* useSearchParams(): the query parameters of the route, in order, each a
\* pair <<name, value>>.
Queries ==
    {<< >>,
     <<<<"q", "test">>>>,
     <<<<"q", "test">>, <<"category", "blog">>>>,
     <<<<"code", "abc">>>>,
     <<<<"code", "xyz">>>>,
     <<<<"code", "abc">>, <<"q", "test">>, <<"code", "xyz">>>>,
     <<<<"token", "t1">>, <<"q", "test">>>>,
     <<<<"access_token", "t2">>>>,
     <<<<"refresh_token", "t3">>, <<"category", "blog">>>>,
     <<<<"auth_token", "t4">>>>,
     <<<<"api_key", "k5">>, <<"q", "other">>>>}

\* The array sensitiveParams.
SensitiveParams ==
    <<"code", "token", "access_token", "refresh_token", "auth_token",
      "api_key">>

\* URLSearchParams.delete(name): removes every parameter of that name.
Delete(params, name) ==
    LET Other(p) == p[1] # name
    IN SelectSeq(params, Other)

RECURSIVE DeleteEach(_, _)
\* The loop over sensitiveParams.
DeleteEach(params, names) ==
    IF names = << >> THEN params
    ELSE DeleteEach(Delete(params, Head(names)), Tail(names))

\* Variant: the last name of the list is not deleted.
SearchKeepsApiKey(query) ==
    DeleteEach(query, SubSeq(SensitiveParams, 1, Len(SensitiveParams) - 1))

\* The constant `search`: the parameters of the route without the sensitive
\* ones; params.toString() is the empty string when none is left.
Search(query) == DeleteEach(query, SensitiveParams)

\* The template literals of the effect: origin and pathname, then "?" and
\* the search string when it is not empty.
CurrentUrl(pathname, search) ==
    [origin |-> Origin, pathname |-> pathname,
     mark |-> IF search # << >> THEN "?" ELSE "",
     search |-> search]

NoUrl == [origin |-> "", pathname |-> "", mark |-> "", search |-> << >>]

\* The dependency array of the effect.
Deps(pathname, query, client) == <<pathname, Search(query), client>>

NoPageview ==
    [mounted |-> FALSE, pathname |-> NullPathname, query |-> << >>,
     client |-> FALSE, deps |-> << >>, renders |-> 0, captures |-> 0,
     url |-> NoUrl]

----------------------------------------------------------------------------
\* Providers (src/app/providers.tsx)

NoProviders ==
    [mounted |-> FALSE, renders |-> 0, inits |-> 0, threw |-> FALSE,
     logged |-> 0, children |-> FALSE, apiKey |-> Undefined,
     apiHost |-> Undefined]

----------------------------------------------------------------------------
\* waitForDatabase (scripts/setup-e2e-db.ts)

MaxRetries == 5

Delays == {0, 100, 1000}

NotWaiting ==
    [state |-> "idle", maxRetries |-> 0, delay |-> 0, i |-> 0,
     attempts |-> 0, failures |-> 0, sleeps |-> 0, slept |-> 0]

----------------------------------------------------------------------------
\* State

VARIABLES
    processEnv,   \* process.env
    window,       \* TRUE in a browser context (typeof window !== "undefined")
    phase,        \* "unloaded", "loaded" or "failed": evaluation of src/env.js
    loadedEnv,    \* process.env as read by the evaluation of src/env.js
    env,          \* the snapshot returned by createEnv
    warnings,     \* console.warn calls, in order
    errorReport,  \* field names logged by the validation error handler
    thrown,       \* the error that ended the evaluation of src/env.js
    changes,      \* assignments to process.env so far
    authConfig,   \* the authConfig object of src/server/auth/config.ts
    modules,      \* evaluated instances of the module src/server/posthog.ts
    posthog,      \* the module variable `posthog` of each instance, 0 = null
    globalClient, \* globalThis.__posthogClient, 0 = undefined
    clients,      \* the PostHog instances constructed so far
    pending,      \* helper calls suspended at their await
    lastGet,      \* what the most recent getPostHogClient returned, 0 = none
    lastResult,   \* the most recently settled helper call
    calls,        \* calls of the exported functions so far
    pageview,     \* the PostHogPageview component
    providers,    \* the Providers component
    waiting       \* the call of waitForDatabase

envVars == <<processEnv, window, phase, loadedEnv, env, warnings,
             errorReport, thrown, changes>>

phVars == <<modules, posthog, globalClient, clients, pending, lastGet,
            lastResult, calls>>

appVars == <<pageview, providers, waiting>>

vars == <<envVars, authConfig, phVars, appVars>>

Init ==
    /\ processEnv \in {EmptyEnvironment, TestEnvironment,
                       ProductionEnvironment}
    /\ window \in BOOLEAN
    /\ phase = "unloaded"
    /\ loadedEnv = EmptyEnvironment
    /\ env = NoData
    /\ warnings = << >>
    /\ errorReport = {}
    /\ thrown = NoError
    /\ changes = 0
    /\ authConfig = NoAuthConfig
    /\ modules = {}
    /\ posthog = [i \in Instances |-> 0]
    /\ globalClient = 0
    /\ clients = << >>
    /\ pending = EmptyBag
    /\ lastGet = 0
    /\ lastResult = NoResult
    /\ calls = 0
    /\ pageview = NoPageview
    /\ providers = NoProviders
    /\ waiting = NotWaiting

\* Variant: the snapshot reads through to process.env.
SetEnvWriteThrough(n, v) ==
    /\ changes < MaxEnvChanges
    /\ processEnv[n] # v
    /\ processEnv' = [processEnv EXCEPT ![n] = v]
    /\ changes' = changes + 1
    /\ env' = IF phase = "loaded" /\ n \in Fields
              THEN [env EXCEPT ![n] = v] ELSE env
    /\ UNCHANGED <<window, phase, loadedEnv, warnings, errorReport,
                   thrown, authConfig, phVars, appVars>>

\* process.env[n] = v, or delete process.env[n].
SetEnv(n, v) ==
    /\ changes < MaxEnvChanges
    /\ processEnv[n] # v
    /\ processEnv' = [processEnv EXCEPT ![n] = v]
    /\ changes' = changes + 1
    /\ UNCHANGED <<window, phase, loadedEnv, env, warnings, errorReport,
                   thrown, authConfig, phVars, appVars>>

\* Evaluation of the module src/env.js: createEnv, then the key check, then
\* the host check.  A validation error is logged and thrown, which ends the
\* evaluation before the snapshot is bound and before both checks.
LoadEnvModule ==
    /\ phase = "unloaded"
    /\ loadedEnv' = processEnv
    /\ LET r == CreateEnv(processEnv, window)
           c == ConsistencyChecks(r, processEnv, window)
       IN /\ errorReport' = r.issues
          /\ IF r.ok
             THEN /\ env' = r.data
                  /\ warnings' = warnings \o c.msgs
                  /\ thrown' = IF c.threw THEN InvalidAccessError
                               ELSE NoError
                  /\ phase' = IF c.threw THEN "failed" ELSE "loaded"
             ELSE /\ thrown' = InvalidEnvError
                  /\ phase' = "failed"
                  /\ UNCHANGED <<env, warnings>>
    /\ UNCHANGED <<processEnv, window, changes, authConfig, phVars, appVars>>

\* Evaluation of the module src/server/auth/config.ts on the server, after
\* its import of src/env.js has succeeded.
LoadAuthConfig ==
    /\ phase = "loaded"
    /\ ~window
    /\ ~authConfig.loaded
    /\ authConfig' = AuthConfigOf(processEnv, env)
    /\ UNCHANGED <<envVars, phVars, appVars>>

Next ==
    \/ \E n \in EnvNames : \E v \in ValuesOf(n) : SetEnv(n, v)
    \/ LoadEnvModule
    \/ LoadAuthConfig

Spec == Init /\ [][Next]_vars

----------------------------------------------------------------------------
\* The helpers of src/server/posthog.ts.  A helper runs without interruption
\* up to its await; the call it awaits settles in a later step.

\* new PostHog(env.POSTHOG_KEY, { host: env.POSTHOG_HOST }).
NewClient ==
    [key |-> env["POSTHOG_KEY"], host |-> env["POSTHOG_HOST"],
     shutdowns |-> 0, closed |-> FALSE]

\* The body of getPostHogClient in module instance i: the client it returns
\* and the instances constructed once it has run.
GetOrCreate(i) ==
    IF posthog[i] # 0
    THEN [client |-> posthog[i], clients |-> clients, created |-> FALSE]
    ELSE [client |-> Len(clients) + 1,
          clients |-> Append(clients, NewClient),
          created |-> TRUE]

\* The effect of getPostHogClient in instance i on the singleton state.
Got(i) ==
    LET g == GetOrCreate(i) IN
    /\ posthog' = [posthog EXCEPT ![i] = g.client]
    /\ globalClient' = IF g.created THEN g.client ELSE globalClient
    /\ clients' = g.clients
    /\ lastGet' = g.client

\* An exported function of instance i is called.
Called(i) ==
    /\ i \in modules
    /\ calls < MaxCalls
    /\ calls' = calls + 1

\* A settled helper call: the client it reached (0 = none), how its promise
\* settled, the console method it logged with, and whether the client call
\* it awaited had failed.
Settled(op, c, outcome, logged, failed) ==
    [op |-> op, client |-> c, outcome |-> outcome, logged |-> logged,
     failed |-> failed, value |-> "undefined"]

\* A settled helper call that resolved with a value.
Returned(op, c, value, logged, failed) ==
    [op |-> op, client |-> c, outcome |-> "resolved", logged |-> logged,
     failed |-> failed, value |-> value]

\* A call suspended at its await: the client it awaits, what it has passed
\* to the client, and whether the helper call settled before it had failed.
Suspended(op, i, c, sent) ==
    [op |-> op, inst |-> i, client |-> c, sent |-> sent,
     afterFailure |-> lastResult.failed]

\* Evaluation of the module in a server process in which src/env.js is
\* loaded: `let posthog = globalThis.__posthogClient ?? null`.
EvaluatePostHogModule(i) ==
    /\ phase = "loaded"
    /\ ~window
    /\ i \notin modules
    /\ \A j \in Instances : j < i => j \in modules
    /\ modules' = modules \cup {i}
    /\ posthog' = [posthog EXCEPT ![i] = globalClient]
    /\ UNCHANGED <<appVars, envVars, authConfig, globalClient, clients, pending,
                   lastGet, lastResult, calls>>

GetPostHogClient(i) ==
    /\ Called(i)
    /\ Got(i)
    /\ UNCHANGED <<appVars, envVars, authConfig, modules, pending, lastResult>>

\* captureEvent up to `await client.capture(...)`, or to its return when an
\* identifier is empty after trimming.
CaptureEvent(i, distinctId, event, properties) ==
    /\ Called(i)
    /\ IF ~Truthy(Trim(distinctId)) \/ ~Truthy(Trim(event))
       THEN /\ lastResult' = Settled("capture", 0, "resolved", "error", FALSE)
            /\ UNCHANGED <<posthog, globalClient, clients, pending, lastGet>>
       ELSE /\ Got(i)
            /\ pending' = pending (+) SetToBag({
                 Suspended("capture", i, GetOrCreate(i).client,
                     <<CapturePayload(distinctId, event, properties)>>)})
            /\ UNCHANGED lastResult
    /\ UNCHANGED <<appVars, envVars, authConfig, modules>>

\* identifyUser up to `await client.identify(...)`, or to its return when
\* the identifier is empty after trimming or the properties are no object.
IdentifyUser(i, distinctId, properties) ==
    /\ Called(i)
    /\ IF ~Truthy(Trim(distinctId)) \/ ~PlainObjectOrUndefined(properties)
       THEN /\ lastResult' = Settled("identify", 0, "resolved", "warn", FALSE)
            /\ UNCHANGED <<posthog, globalClient, clients, pending, lastGet>>
       ELSE /\ Got(i)
            /\ pending' = pending (+) SetToBag({
                 Suspended("identify", i, GetOrCreate(i).client,
                     <<IdentifyPayload(distinctId, properties)>>)})
            /\ UNCHANGED lastResult
    /\ UNCHANGED <<appVars, envVars, authConfig, modules>>

\* Variant: the await is outside the try block, a rejection is not caught.
ClientCallSettlesUncaught(r, ok) ==
    /\ r \in BagToSet(pending)
    /\ r.op \in {"capture", "identify"}
    /\ pending' = pending (-) SetToBag({r})
    /\ lastResult' =
          Settled(r.op, r.client, IF ok THEN "resolved" ELSE "rejected",
                  "none", ~ok)
    /\ UNCHANGED <<appVars, envVars, authConfig, modules, posthog, globalClient,
                   clients, lastGet, calls>>

\* The awaited capture or identify call r settles; a rejection is caught
\* and logged with console.error, and the helper returns.
ClientCallSettles(r, ok) ==
    /\ r \in BagToSet(pending)
    /\ r.op \in {"capture", "identify"}
    /\ pending' = pending (-) SetToBag({r})
    /\ lastResult' =
          Settled(r.op, r.client, "resolved", IF ok THEN "none" ELSE "error",
                  ~ok)
    /\ UNCHANGED <<appVars, envVars, authConfig, modules, posthog, globalClient,
                   clients, lastGet, calls>>

\* shutdownPostHog up to `await posthog.shutdown()`, or to its return when
\* the module variable is null.
ShutdownPostHog(i) ==
    /\ Called(i)
    /\ IF posthog[i] = 0
       THEN /\ lastResult' = Settled("shutdown", 0, "resolved", "none", FALSE)
            /\ UNCHANGED <<clients, pending>>
       ELSE /\ clients' = [clients EXCEPT ![posthog[i]].shutdowns = @ + 1]
            /\ pending' = pending (+) SetToBag({
                 Suspended("shutdown", i, posthog[i], << >>)})
            /\ UNCHANGED lastResult
    /\ UNCHANGED <<appVars, envVars, authConfig, modules, posthog, globalClient,
                   lastGet>>

\* The awaited shutdown() of r settles: when it resolves the two assignments
\* after the await run, when it rejects shutdownPostHog rejects.
ShutdownSettles(r, ok) ==
    /\ r \in BagToSet(pending)
    /\ r.op = "shutdown"
    /\ pending' = pending (-) SetToBag({r})
    /\ IF ok
       THEN /\ clients' = [clients EXCEPT ![r.client].closed = TRUE]
            /\ posthog' = [posthog EXCEPT ![r.inst] = 0]
            /\ globalClient' = 0
            /\ lastResult' =
                 Settled("shutdown", r.client, "resolved", "none", FALSE)
       ELSE /\ lastResult' =
                 Settled("shutdown", r.client, "rejected", "none", TRUE)
            /\ UNCHANGED <<clients, posthog, globalClient>>
    /\ UNCHANGED <<appVars, envVars, authConfig, modules, lastGet, calls>>

\* getFeatureFlags up to `await client.getAllFlags(distinctId, groups)`.
GetFeatureFlags(i, distinctId, groups) ==
    /\ Called(i)
    /\ Got(i)
    /\ pending' = pending (+) SetToBag({
          Suspended("getFeatureFlags", i, GetOrCreate(i).client,
                    <<GetAllFlagsPayload(distinctId, groups)>>)})
    /\ UNCHANGED <<appVars, envVars, authConfig, modules, lastResult>>

\* The awaited getAllFlags call r settles with response.
GetAllFlagsSettles(r, response) ==
    /\ r \in BagToSet(pending)
    /\ r.op = "getFeatureFlags"
    /\ pending' = pending (-) SetToBag({r})
    /\ lastResult' =
          Returned(r.op, r.client, FlagsResult(response),
                   IF response = "rejects" THEN "error" ELSE "none",
                   response = "rejects")
    /\ UNCHANGED <<appVars, envVars, authConfig, modules, posthog, globalClient,
                   clients, lastGet, calls>>

\* isFeatureEnabled up to `await client.isFeatureEnabled(flagKey,
\* distinctId, groups)`.
IsFeatureEnabled(i, distinctId, flagKey, groups) ==
    /\ Called(i)
    /\ Got(i)
    /\ pending' = pending (+) SetToBag({
          Suspended("isFeatureEnabled", i, GetOrCreate(i).client,
                    <<IsFeatureEnabledPayload(flagKey, distinctId, groups)>>)})
    /\ UNCHANGED <<appVars, envVars, authConfig, modules, lastResult>>

\* The awaited isFeatureEnabled call r settles with response.
IsFeatureEnabledSettles(r, response) ==
    /\ r \in BagToSet(pending)
    /\ r.op = "isFeatureEnabled"
    /\ pending' = pending (-) SetToBag({r})
    /\ lastResult' =
          Returned(r.op, r.client, EnabledResult(response),
                   IF response = "rejects" THEN "error" ELSE "none",
                   response = "rejects")
    /\ UNCHANGED <<appVars, envVars, authConfig, modules, posthog, globalClient,
                   clients, lastGet, calls>>

\* A server process started in the production environment.
PostHogInit ==
    /\ Init
    /\ ~window
    /\ processEnv = ProductionEnvironment

PostHogNext ==
    \/ LoadEnvModule
    \/ \E i \in Instances : EvaluatePostHogModule(i)
    \/ \E i \in Instances : GetPostHogClient(i)
    \/ \E i \in Instances, d \in DistinctIds, e \in Events,
          p \in PropertyArguments : CaptureEvent(i, d, e, p)
    \/ \E i \in Instances, d \in DistinctIds, p \in PropertyArguments :
          IdentifyUser(i, d, p)
    \/ \E r \in BagToSet(pending), ok \in BOOLEAN : ClientCallSettles(r, ok)
    \/ \E i \in Instances : ShutdownPostHog(i)
    \/ \E r \in BagToSet(pending), ok \in BOOLEAN : ShutdownSettles(r, ok)

PostHogSpec == PostHogInit /\ [][PostHogNext]_vars

\* The helpers that forward identifiers to the client, in a process that
\* evaluates the module once.
HelpersNext ==
    \/ LoadEnvModule
    \/ EvaluatePostHogModule(1)
    \/ \E i \in modules, d \in DistinctIds, e \in Events,
          p \in PropertyArguments : CaptureEvent(i, d, e, p)
    \/ \E i \in modules, d \in DistinctIds, p \in PropertyArguments :
          IdentifyUser(i, d, p)
    \/ \E r \in BagToSet(pending), ok \in BOOLEAN : ClientCallSettles(r, ok)
    \/ \E i \in modules, d \in DistinctIds, k \in FlagKeys,
          g \in GroupArguments : IsFeatureEnabled(i, d, k, g)
    \/ \E r \in BagToSet(pending), response \in EnabledResponses :
          IsFeatureEnabledSettles(r, response)

HelpersSpec == PostHogInit /\ [][HelpersNext]_vars

\* The feature flag helpers, in a process that evaluates the module once.
FlagsNext ==
    \/ LoadEnvModule
    \/ EvaluatePostHogModule(1)
    \/ \E i \in modules, d \in DistinctIds, g \in GroupArguments :
          GetFeatureFlags(i, d, g)
    \/ \E r \in BagToSet(pending), response \in FlagsResponses :
          GetAllFlagsSettles(r, response)
    \/ \E i \in modules, d \in DistinctIds, k \in FlagKeys,
          g \in GroupArguments : IsFeatureEnabled(i, d, k, g)
    \/ \E r \in BagToSet(pending), response \in EnabledResponses :
          IsFeatureEnabledSettles(r, response)

FlagsSpec == PostHogInit /\ [][FlagsNext]_vars

----------------------------------------------------------------------------
\* Properties

Count(seq, m) == Cardinality({i \in DOMAIN seq : seq[i] = m})

\* createEnv returned a snapshot in this evaluation of src/env.js.
Constructed == phase # "unloaded" /\ thrown # InvalidEnvError

Production == Word("production")

Pairs == {<<"POSTHOG_KEY", "NEXT_PUBLIC_POSTHOG_KEY", KeyWarning>>,
          <<"POSTHOG_HOST", "NEXT_PUBLIC_POSTHOG_HOST", HostWarning>>}

\* Both members of a pair are present, non-empty and unequal in e.
Differ(e, p) == Truthy(e[p[1]]) /\ Truthy(e[p[2]]) /\ e[p[1]] # e[p[2]]

\* C1: for each pair, when construction succeeds on the server with a
\* runtime mode other than production and both members of the pair are set,
\* non-empty and unequal in the environment, the pair's warning is on the
\* console exactly once; when the two members are equal it is not there.
C1_DivergenceWarnedOnce ==
    Constructed =>
        \A p \in Pairs :
            /\ (~window /\ env["NODE_ENV"] # Production /\ Differ(loadedEnv, p))
                    => Count(warnings, p[3]) = 1
            /\ loadedEnv[p[1]] = loadedEnv[p[2]] => Count(warnings, p[3]) = 0

\* Scenario 1: differing keys and matching hosts on a non-production server.
C1_Witness ==
    /\ phase = "loaded" /\ ~window
    /\ env["NODE_ENV"] \in {Word("development"), Word("test")}
    /\ loadedEnv["POSTHOG_KEY"] = Word("server-key-123")
    /\ loadedEnv["NEXT_PUBLIC_POSTHOG_KEY"] = Word("client-key-456")
    /\ Truthy(loadedEnv["POSTHOG_HOST"])
    /\ loadedEnv["POSTHOG_HOST"] = loadedEnv["NEXT_PUBLIC_POSTHOG_HOST"]
    /\ warnings = <<KeyWarning>>

\* C2: a warning is on the console only after a server-side evaluation with
\* NODE_ENV other than production; in a browser and in production mode the
\* console has no warning, whatever the key and host values are.
C2_NoWarningInProductionOrBrowser ==
    (\/ window
     \/ loadedEnv["NODE_ENV"] = Production
     \/ env["NODE_ENV"] = Production) => warnings = << >>

\* Scenario 3: production server, both pairs differing, no warning.
C2_Witness ==
    /\ phase = "loaded" /\ ~window
    /\ env["NODE_ENV"] = Production
    /\ \A p \in Pairs : Differ(loadedEnv, p)
    /\ warnings = << >>

\* C3: each check's outcome is decided by its own pair alone (on a server
\* outside production the key warning is there exactly when the key pair
\* differs and the host warning exactly when the host pair differs), and a
\* key warning always precedes a host warning.
C3_ChecksIndependentAndOrdered ==
    Constructed =>
        /\ \A p \in Pairs :
              (\E i \in DOMAIN warnings : warnings[i] = p[3])
                 <=> (~window /\ env["NODE_ENV"] # Production /\ Differ(env, p))
        /\ \A i, j \in DOMAIN warnings :
              (warnings[i] = KeyWarning /\ warnings[j] = HostWarning) => i < j

\* Both checks fire in one construction.
C3_Witness ==
    /\ phase = "loaded"
    /\ warnings = <<KeyWarning, HostWarning>>

\* C4: when a member of a pair is undefined or empty in the constructed
\* snapshot, the pair's warning is not on the console and the consistency
\* check has not thrown.
C4_AbsenceIsNotDivergence ==
    Constructed =>
        \A p \in Pairs :
            (~Truthy(env[p[1]]) \/ ~Truthy(env[p[2]]))
                => Count(warnings, p[3]) = 0 /\ thrown = NoError

\* A non-production server snapshot with one member of the key pair missing
\* and the other present.
C4_Witness ==
    /\ phase = "loaded" /\ ~window
    /\ loadedEnv["NODE_ENV"] # Production
    /\ ~Truthy(env["POSTHOG_KEY"])
    /\ Truthy(env["NEXT_PUBLIC_POSTHOG_KEY"])
    /\ warnings = << >>

\* C5: when validation fails (the error handler has logged fields),
\* the evaluation has thrown the validation error, no snapshot is bound and
\* the console has no warning.
C5_ValidationFailsFast ==
    errorReport # {} =>
        /\ phase = "failed"
        /\ thrown = InvalidEnvError
        /\ env = NoData
        /\ warnings = << >>

\* A failed construction on a non-production server whose key pair and
\* host pair both differ.
C5_Witness ==
    /\ phase = "failed" /\ ~window
    /\ errorReport # {}
    /\ loadedEnv["NODE_ENV"] # Production
    /\ \A p \in Pairs : Differ(loadedEnv, p)

\* Validation is enabled in this evaluation of src/env.js.
ValidationEnabled ==
    phase # "unloaded" /\ ~Truthy(loadedEnv["SKIP_ENV_VALIDATION"])

RequiredFields == {"AUTH_RESEND_KEY", "AUTH_RESEND_FROM", "DATABASE_URL",
                   "POSTHOG_KEY", "POSTHOG_HOST", "NEXT_PUBLIC_POSTHOG_KEY",
                   "NEXT_PUBLIC_POSTHOG_HOST"}
UrlFields == {"DATABASE_URL", "POSTHOG_HOST", "NEXT_PUBLIC_POSTHOG_HOST"}
ValidModes == {Word(m) : m \in NodeEnvs}

\* f is set to a non-empty value, a well-formed URL when f is URL-typed.
WellSet(f) ==
    /\ Truthy(loadedEnv[f])
    /\ f \in UrlFields => IsUrl(loadedEnv[f].chars)

\* C6 as stated: with validation enabled, construction succeeds only if
\* every required field is set and non-empty and every URL-typed field is a
\* well-formed URL.
C6_Original ==
    (ValidationEnabled /\ phase = "loaded") =>
        \A f \in RequiredFields : WellSet(f)

\* C6 amended: with validation enabled, a construction on the server
\* succeeds only if every required field is set, non-empty and, when
\* URL-typed, a well-formed URL; a construction in a browser only if the two
\* NEXT_PUBLIC_ fields are.
C6_RequiredFieldsChecked ==
    (ValidationEnabled /\ phase = "loaded") =>
        \A f \in (IF window THEN Range(ClientKeys) ELSE RequiredFields) :
            WellSet(f)

\* Scenario 5 on both hosts: "invalid-url" in the URL fields, everything else
\* valid, and the server construction has failed on exactly those fields.
C6_Witness ==
    /\ ValidationEnabled /\ ~window
    /\ phase = "failed"
    /\ loadedEnv["POSTHOG_HOST"] = Word("invalid-url")
    /\ loadedEnv["NEXT_PUBLIC_POSTHOG_HOST"] = Word("invalid-url")
    /\ errorReport = {"POSTHOG_HOST", "NEXT_PUBLIC_POSTHOG_HOST"}

\* NODE_ENV is development, test, unset or empty.
NonProductionMode ==
    loadedEnv["NODE_ENV"] \in
        {Word("development"), Word("test"), Undefined, EmptyString}

\* C7 as stated: in production mode an absent or empty AUTH_SECRET makes
\* construction fail; in development, test or defaulted mode AUTH_SECRET
\* is never among the failing fields.
C7_Original ==
    phase # "unloaded" =>
        /\ (loadedEnv["NODE_ENV"] = Production
                /\ ~Truthy(loadedEnv["AUTH_SECRET"])) => phase = "failed"
        /\ NonProductionMode => "AUTH_SECRET" \notin errorReport

\* C7 amended: when validation runs on the server, production mode with an
\* absent or empty AUTH_SECRET makes construction fail on AUTH_SECRET; in
\* development, test or defaulted mode AUTH_SECRET is never among the
\* failing fields.
C7_AuthSecretConditionallyRequired ==
    phase # "unloaded" =>
        /\ (ValidationEnabled /\ ~window
                /\ loadedEnv["NODE_ENV"] = Production
                /\ ~Truthy(loadedEnv["AUTH_SECRET"]))
              => (phase = "failed" /\ "AUTH_SECRET" \in errorReport)
        /\ NonProductionMode => "AUTH_SECRET" \notin errorReport

\* A production server construction that failed on AUTH_SECRET alone.
C7_Witness ==
    /\ ValidationEnabled /\ ~window
    /\ loadedEnv["NODE_ENV"] = Production
    /\ ~Truthy(loadedEnv["AUTH_SECRET"])
    /\ phase = "failed"
    /\ errorReport = {"AUTH_SECRET"}

\* The three cases of the NODE_ENV field.
NodeEnvResolved ==
    LET v == loadedEnv["NODE_ENV"] IN
    /\ (~Truthy(v) /\ phase = "loaded")
            => env["NODE_ENV"] = Word("development")
    /\ (v \in ValidModes /\ phase = "loaded") => env["NODE_ENV"] = v
    /\ (Truthy(v) /\ v \notin ValidModes) => phase = "failed"

\* C8 as stated: with validation enabled the snapshot's NODE_ENV is
\* development when the variable is unset or empty, the supplied value when
\* that is one of the three modes, and construction fails on any other
\* non-empty value.
C8_Original == ValidationEnabled => NodeEnvResolved

\* C8 amended: the same, for a construction on the server.
C8_NodeEnvDefaultAndEnum == (ValidationEnabled /\ ~window) => NodeEnvResolved

\* NODE_ENV unset, and the server snapshot holds the default.
C8_Witness ==
    /\ ValidationEnabled /\ ~window
    /\ phase = "loaded"
    /\ loadedEnv["NODE_ENV"] = Undefined
    /\ env["NODE_ENV"] = Word("development")

\* C9 as stated: every returned snapshot's NODE_ENV is one of development,
\* test, production.
C9_Original == phase = "loaded" => env["NODE_ENV"] \in ValidModes

\* C9 amended: every snapshot returned by a validated construction on the
\* server has NODE_ENV equal to one of development, test, production.
C9_ModeNeverEmpty ==
    (phase = "loaded" /\ ValidationEnabled /\ ~window)
        => env["NODE_ENV"] \in ValidModes

\* NODE_ENV set to the empty string, and the server snapshot is not empty.
C9_Witness ==
    /\ ValidationEnabled /\ ~window
    /\ phase = "loaded"
    /\ loadedEnv["NODE_ENV"] = EmptyString
    /\ Truthy(env["NODE_ENV"])

\* f, taken alone, violates the constraint the spec states for it.
Violates(f) ==
    LET v == loadedEnv[f] IN
    CASE f = "NODE_ENV" -> Truthy(v) /\ v \notin ValidModes
      [] f = "AUTH_SECRET" ->
            loadedEnv["NODE_ENV"] = Production /\ ~Truthy(v)
      [] OTHER -> ~WellSet(f)

\* The fields of the schema in effect: all of them on the server, the
\* client group in a browser.
CheckedFields == IF window THEN Range(ClientKeys) ELSE Fields

Affirmative == {Word("1"), Word("true")}

\* C11 as stated: unless SKIP_ENV_VALIDATION holds an affirmative value, the
\* checks are applied, so a construction from an environment in which a
\* checked field violates its constraint fails.
C11_SkipOnlyIfAffirmative ==
    (/\ phase # "unloaded"
     /\ loadedEnv["SKIP_ENV_VALIDATION"] \notin Affirmative
     /\ \E f \in CheckedFields : Violates(f))
        => phase = "failed"

\* What the code does for a non-empty, non-affirmative value: construction
\* from an invalid environment with SKIP_ENV_VALIDATION=false succeeds.
C11_SkippedByFalse ==
    /\ phase = "loaded"
    /\ loadedEnv["SKIP_ENV_VALIDATION"] = Word("false")
    /\ \E f \in CheckedFields : Violates(f)

\* The construction ran with the skip-validation flag set.
Skipped == phase # "unloaded" /\ Truthy(loadedEnv["SKIP_ENV_VALIDATION"])

\* C12 as stated: with the skip flag set, construction never fails and
\* every snapshot field equals the raw environment value.
C12_Original ==
    Skipped =>
        /\ phase = "loaded"
        /\ \A f \in Fields : env[f] = loadedEnv[f]

\* C12: with the skip flag set, construction never fails, nothing is
\* reported, and every snapshot field equals the raw environment value
\* except that an empty string is returned as undefined; no default is
\* applied and no required, URL or enum check is run.
C12_SkipReturnsRuntimeEnv ==
    Skipped =>
        /\ phase = "loaded"
        /\ thrown = NoError
        /\ errorReport = {}
        /\ \A f \in Fields :
              env[f] = IF loadedEnv[f] = EmptyString THEN Undefined
                       ELSE loadedEnv[f]

C12_Witness ==
    /\ Skipped
    /\ phase = "loaded"
    /\ loadedEnv["NODE_ENV"] = Undefined /\ env["NODE_ENV"] = Undefined
    /\ \E f \in Fields : loadedEnv[f] = EmptyString /\ env[f] = Undefined
    /\ \E f \in RequiredFields : loadedEnv[f] = Undefined

\* C13: whenever createEnv returns a snapshot the evaluation completes
\* without an error, and every field the construction read keeps its
\* environment value in the snapshot, whether zero, one or two divergence
\* warnings were emitted.
C13_WarningsNonFatal ==
    Constructed =>
        /\ phase = "loaded"
        /\ thrown = NoError
        /\ Len(warnings) \in 0..2
        /\ \A f \in Fields :
              (Truthy(loadedEnv[f]) /\ (f \in CheckedFields \/ Skipped))
                  => env[f] = loadedEnv[f]

\* Two warnings were emitted and the four fields they are about are in the
\* snapshot as they were set.
C13_Witness ==
    /\ phase = "loaded"
    /\ Len(warnings) = 2
    /\ \A p \in Pairs :
          /\ Differ(loadedEnv, p)
          /\ env[p[1]] = loadedEnv[p[1]]
          /\ env[p[2]] = loadedEnv[p[2]]

\* C14: src/env.js is evaluated once, and from then on no step (a change
\* of process.env, the evaluation of the auth configuration that reads the
\* snapshot) changes a field of the snapshot.
C14_SnapshotNeverMutated ==
    [][phase # "unloaded" =>
          /\ phase' = phase
          /\ loadedEnv' = loadedEnv
          /\ env' = env]_vars

\* The auth configuration has read the snapshot and process.env has since
\* been changed in a field that the snapshot still holds as constructed.
C14_Witness ==
    /\ phase = "loaded"
    /\ authConfig.loaded
    /\ authConfig.apiKey = env["AUTH_RESEND_KEY"]
    /\ \E f \in Fields :
          /\ Truthy(loadedEnv[f])
          /\ processEnv[f] # loadedEnv[f]
          /\ env[f] = loadedEnv[f]

\* C16 as stated: the auth configuration has the jwt strategy, the jwt
\* settings and the jwt callback when the snapshot's NODE_ENV is production,
\* and the database strategy without them in every other mode.
C16_StrategyFromSnapshot ==
    authConfig.loaded =>
        IF env["NODE_ENV"] = Production
        THEN /\ authConfig.strategy = "jwt"
             /\ authConfig.jwt
             /\ authConfig.jwtCallback
        ELSE /\ authConfig.strategy = "database"
             /\ ~authConfig.jwt
             /\ ~authConfig.jwtCallback

\* What the code does: the strategy follows process.env.NODE_ENV as it is
\* when the auth configuration is evaluated, here against a snapshot that
\* was constructed in another mode.
C16_StrategyFromProcessEnv ==
    /\ authConfig.loaded
    /\ authConfig.strategy = "jwt"
    /\ env["NODE_ENV"] # Production
    /\ processEnv["NODE_ENV"] = Production

\* No shutdownPostHog call has reached a client.
NoShutdown == \A c \in DOMAIN clients : clients[c].shutdowns = 0

\* C17 as stated: as long as no shutdown intervenes, the PostHog
\* constructor has run at most once, with env.POSTHOG_KEY and host
\* env.POSTHOG_HOST, and every getPostHogClient call has returned that
\* instance.
C17_SingletonAccessor ==
    NoShutdown =>
        /\ Len(clients) <= 1
        /\ lastGet # 0 =>
              /\ lastGet = 1
              /\ clients[lastGet].key = env["POSTHOG_KEY"]
              /\ clients[lastGet].host = env["POSTHOG_HOST"]
              /\ \A i \in modules : posthog[i] \in {0, lastGet}

\* What the code does: two module instances evaluated before the first
\* access each construct a client.
C17_TwoClients ==
    /\ NoShutdown
    /\ Len(clients) = 2
    /\ posthog[1] # 0 /\ posthog[2] # 0 /\ posthog[1] # posthog[2]

\* The shutdown() invocations on client c that have not been rejected.
Shutdowns(c) ==
    LET awaited == {r \in BagToSet(pending) :
                        r.op = "shutdown" /\ r.client = c}
        Sum[S \in SUBSET awaited] ==
            IF S = {} THEN 0
            ELSE LET r == CHOOSE x \in S : TRUE
                 IN CopiesIn(r, pending) + Sum[S \ {r}]
    IN Sum[awaited] + IF clients[c].closed THEN 1 ELSE 0

\* C18 as stated: when the shutdown() awaited by a shutdownPostHog call
\* resolves, shutdown() has been invoked exactly once on that client
\* (rejected invocations aside) and the handle (module variable and
\* globalThis.__posthogClient) is empty, so that the next getPostHogClient
\* of the instance constructs a client; a shutdownPostHog call that finds
\* no client invokes no shutdown() and leaves the singleton state unchanged.
C18_ShutdownClearsSingleton ==
    [][/\ \A r \in BagToSet(pending) :
             ShutdownSettles(r, TRUE) =>
                 /\ Shutdowns(r.client) = 1
                 /\ posthog'[r.inst] = 0
                 /\ globalClient' = 0
                 /\ GetOrCreate(r.inst).created'
       /\ \A i \in modules :
             (posthog[i] = 0 /\ ShutdownPostHog(i)) =>
                 UNCHANGED <<posthog, globalClient, clients, pending>>]_vars

\* What the code does: a second shutdownPostHog call made while the first
\* awaits finds the handle still set and invokes shutdown() on the same
\* client again.
C18_ShutdownInvokedTwice ==
    /\ modules = {1}
    /\ \E r \in BagToSet(pending) :
          r.op = "shutdown" /\ CopiesIn(r, pending) = 2

\* C19: a captureEvent or identifyUser call never rejects: it resolves,
\* with the error logged when the client call it awaited failed; and every
\* such call that is past validation, also one made after a failed call,
\* has reached a client with one capture or identify call.
C19_HelpersNeverReject ==
    /\ lastResult.op \in {"capture", "identify"} =>
          /\ lastResult.outcome = "resolved"
          /\ lastResult.failed => lastResult.logged = "error"
    /\ \A r \in BagToSet(pending) :
          r.op \in {"capture", "identify"} =>
              /\ r.client \in DOMAIN clients
              /\ Len(r.sent) = 1

\* A capture call failed, was logged and resolved, and a helper call made
\* after it awaits the same client.
C19_Witness ==
    /\ lastResult = Settled("capture", lastResult.client, "resolved", "error",
                            TRUE)
    /\ \E r \in BagToSet(pending) :
          /\ r.op \in {"capture", "identify"}
          /\ r.afterFailure
          /\ r.client = lastResult.client
          /\ Len(r.sent) = 1

\* C20 as stated: a captureEvent call that reaches the client has called
\* capture once, with properties that hold the library metadata: an entry
\* $lib = "posthog-node" and an entry $lib_version.
C20_CaptureAddsLibraryMetadata ==
    \A r \in BagToSet(pending) :
        r.op = "capture" =>
            /\ Len(r.sent) = 1
            /\ <<"$lib", "posthog-node">> \in r.sent[1].properties.entries
            /\ \E entry \in r.sent[1].properties.entries :
                  entry[1] = "$lib_version"

\* What the code does: the properties passed to capture are a copy of the
\* caller's properties, empty when the caller passes none.
C20_PropertiesCopied ==
    \E r \in BagToSet(pending) :
        /\ r.op = "capture"
        /\ r.sent = <<CapturePayload(Word("user123"), Word("test_event"),
                                     NoProperties)>>
        /\ r.sent[1].properties.entries = {}

\* The call r was suspended by this step.
Begun(r) == CopiesIn(r, pending') = CopiesIn(r, pending) + 1

\* C21 as stated: every captureEvent, identifyUser and isFeatureEnabled
\* call reaches the client, with the distinctId, event name and flag key
\* the caller passed, whatever strings they are.
C21_IdentifiersForwarded ==
    [][/\ \A i \in modules, d \in DistinctIds, e \in Events,
             p \in PropertyArguments :
             CaptureEvent(i, d, e, p) =>
                 \E r \in BagToSet(pending') :
                     /\ Begun(r) /\ r.op = "capture"
                     /\ r.sent[1].distinctId = d
                     /\ r.sent[1].event = e
       /\ \A i \in modules, d \in DistinctIds, p \in PropertyArguments :
             (PlainObjectOrUndefined(p) /\ IdentifyUser(i, d, p)) =>
                 \E r \in BagToSet(pending') :
                     /\ Begun(r) /\ r.op = "identify"
                     /\ r.sent[1].distinctId = d
       /\ \A i \in modules, d \in DistinctIds, k \in FlagKeys,
             g \in GroupArguments :
             IsFeatureEnabled(i, d, k, g) =>
                 \E r \in BagToSet(pending') :
                     /\ Begun(r) /\ r.op = "isFeatureEnabled"
                     /\ r.sent[1].distinctId = d
                     /\ r.sent[1].event = k]_vars

\* What the code does: a captureEvent call whose distinctId or event is
\* empty after trimming is logged and dropped before it reaches a client.
C21_CallDropped ==
    /\ lastResult = Settled("capture", 0, "resolved", "error", FALSE)
    /\ pending = EmptyBag
    /\ clients = << >>

\* C22 as stated: a getFeatureFlags call never rejects; when the client's
\* getAllFlags fails it logs the error and resolves to an empty object,
\* and when it succeeds it resolves to the client's result.
C22_FlagsEmptyObjectOnFailure ==
    [][\A r \in BagToSet(pending), response \in FlagsResponses :
          GetAllFlagsSettles(r, response) =>
              /\ lastResult'.outcome = "resolved"
              /\ IF response = "rejects"
                 THEN /\ lastResult'.logged = "error"
                      /\ lastResult'.value = "{}"
                 ELSE lastResult'.value = response]_vars

\* What the code does: after a failed getAllFlags the error is logged and
\* the helper resolves to null.
C22_NullOnFailure ==
    lastResult = Returned("getFeatureFlags", 1, "null", "error", TRUE)

\* C23: an isFeatureEnabled call passes (flagKey, distinctId, groups) to the
\* client in that order and never rejects: it resolves to false when the
\* client's check fails, with the error logged, or yields null or
\* undefined, and to the client's boolean otherwise.
C23_FeatureEnabledSafeByDefault ==
    [][/\ \A i \in modules, d \in DistinctIds, k \in FlagKeys,
             g \in GroupArguments :
             IsFeatureEnabled(i, d, k, g) =>
                 \E r \in BagToSet(pending') :
                     /\ Begun(r)
                     /\ r.sent = <<[distinctId |-> d, event |-> k,
                                    properties |-> g]>>
       /\ \A r \in BagToSet(pending), response \in EnabledResponses :
             IsFeatureEnabledSettles(r, response) =>
                 /\ lastResult'.outcome = "resolved"
                 /\ lastResult'.value =
                       IF response = "true" THEN "true" ELSE "false"
                 /\ response = "rejects" => lastResult'.logged = "error"]_vars

\* A check failed, was logged and resolved to false while another check,
\* for a flag key that differs from its distinctId, awaits the client.
C23_Witness ==
    /\ lastResult = Returned("isFeatureEnabled", 1, "false", "error", TRUE)
    /\ \E r \in BagToSet(pending) :
          /\ r.op = "isFeatureEnabled"
          /\ r.sent[1].event = Word("new_dashboard")
          /\ r.sent[1].distinctId = Word("user123")

\* Client c is held by the module variable of an instance or by
\* globalThis.__posthogClient.
Held(c) == globalClient = c \/ \E i \in modules : posthog[i] = c

\* C28 as stated: a step clears the module variable of an instance or
\* globalThis.__posthogClient only when shutdown() has been invoked on the
\* client that the handle holds.
C28_ClearedOnlyByOwnShutdown ==
    [][/\ \A i \in modules :
             (posthog[i] # 0 /\ posthog'[i] = 0) =>
                 clients[posthog[i]].shutdowns > 0
       /\ (globalClient # 0 /\ globalClient' = 0) =>
             clients[globalClient].shutdowns > 0]_vars

\* What the code does: the second of two overlapping shutdownPostHog calls
\* completes after the handle was cleared and set again, and clears a
\* client on which shutdown() was never invoked.
C28_ClientDropped ==
    /\ modules = {1}
    /\ \E c \in DOMAIN clients : clients[c].shutdowns = 0 /\ ~Held(c)

\* C29 as stated: when the shutdown() awaited by a shutdownPostHog call
\* rejects, the call rejects and the singleton state is as it was: the
\* module variable still refers to that client, and a following
\* getPostHogClient returns it without constructing a client.
C29_FailedShutdownKeepsClient ==
    [][\A r \in BagToSet(pending) :
          ShutdownSettles(r, FALSE) =>
              /\ lastResult'.outcome = "rejected"
              /\ UNCHANGED <<posthog, globalClient, clients>>
              /\ posthog'[r.inst] = r.client
              /\ ~GetOrCreate(r.inst).created'
              /\ GetOrCreate(r.inst).client' = r.client]_vars

\* What the code does: of two overlapping shutdownPostHog calls the first
\* completes and clears the handle, then the second one's shutdown()
\* rejects, and the handle no longer refers to the client.
C29_HandleAlreadyCleared ==
    /\ modules = {1}
    /\ lastResult = Settled("shutdown", 1, "rejected", "none", TRUE)
    /\ clients[1].closed
    /\ posthog[1] = 0

\* C30 as stated: the module variable of every evaluated instance agrees
\* with globalThis.__posthogClient, a module that is evaluated adopts the
\* client stored there, and no getPostHogClient call returns a client on
\* which shutdown() has completed.
C30_InstancesAgree ==
    [][/\ \A i \in modules' : posthog'[i] = globalClient'
       /\ \A i \in Instances :
             EvaluatePostHogModule(i) => posthog'[i] = globalClient
       /\ \A i \in modules :
             GetPostHogClient(i) => ~clients'[lastGet'].closed]_vars

\* What the code does: an instance that adopted the client keeps it in its
\* module variable after another instance has shut it down, and returns it.
C30_ClosedClientReturned ==
    \E i \in modules :
        /\ posthog[i] # 0
        /\ lastGet = posthog[i]
        /\ clients[posthog[i]].closed
        /\ globalClient = 0

----------------------------------------------------------------------------
\* The component PostHogPageview.  A render evaluates the hooks and the
\* constant `search`; React then runs the effect if a dependency differs from
\* the one of the previous run, and always after the first render.

\* The body of the effect.
EffectBody(p) ==
    IF ~window THEN p
    ELSE IF p.pathname # NullPathname /\ p.client
         THEN [p EXCEPT !.captures = @ + 1,
                        !.url = CurrentUrl(p.pathname, Search(p.query))]
         ELSE p

\* Variant: the effect has no dependency array and runs after every render.
CommitEveryRender(p) ==
    EffectBody([p EXCEPT !.deps = Deps(p.pathname, p.query, p.client)])

\* useEffect(..., [pathname, search, posthog]) after a render.
Commit(p) ==
    LET d == Deps(p.pathname, p.query, p.client)
    IN IF p.deps # d THEN EffectBody([p EXCEPT !.deps = d]) ELSE p

\* A render of the component with these values of the hooks.
Render(p, pathname, query, client) ==
    Commit([p EXCEPT !.mounted = TRUE, !.pathname = pathname,
                     !.query = query, !.client = client,
                     !.renders = @ + 1])

\* First render; client is FALSE when usePostHog() returns null.
MountPageview(pathname, query, client) ==
    /\ ~pageview.mounted
    /\ pageview.renders < MaxRenders
    /\ pageview' = Render([pageview EXCEPT !.deps = << >>], pathname, query,
                          client)
    /\ UNCHANGED <<envVars, authConfig, phVars, providers, waiting>>

\* A navigation: the hooks return another pathname or other parameters.
NavigatePageview(pathname, query) ==
    /\ pageview.mounted
    /\ pageview.renders < MaxRenders
    /\ <<pathname, query>> # <<pageview.pathname, pageview.query>>
    /\ pageview' = Render(pageview, pathname, query, pageview.client)
    /\ UNCHANGED <<envVars, authConfig, phVars, providers, waiting>>

\* A render with the hooks returning what they returned before.
RerenderPageview ==
    /\ pageview.mounted
    /\ pageview.renders < MaxRenders
    /\ pageview' = Render(pageview, pageview.pathname, pageview.query,
                          pageview.client)
    /\ UNCHANGED <<envVars, authConfig, phVars, providers, waiting>>

UnmountPageview ==
    /\ pageview.mounted
    /\ pageview' = [pageview EXCEPT !.mounted = FALSE]
    /\ UNCHANGED <<envVars, authConfig, phVars, providers, waiting>>

PageviewInit ==
    /\ Init
    /\ window
    /\ processEnv = ProductionEnvironment

PageviewNext ==
    \/ \E pathname \in Pathnames : \E query \in Queries :
          \E client \in BOOLEAN : MountPageview(pathname, query, client)
    \/ \E pathname \in Pathnames : \E query \in Queries :
          NavigatePageview(pathname, query)
    \/ RerenderPageview
    \/ UnmountPageview

PageviewSpec == PageviewInit /\ [][PageviewNext]_vars

\* The route of the component changed in this step, or it was mounted.
RouteChanged ==
    \/ ~pageview.mounted
    \/ <<pageview'.pathname, pageview'.query>>
          # <<pageview.pathname, pageview.query>>

\* The route without its sensitive parameters changed in this step, or the
\* component was mounted.
SanitizedRouteChanged ==
    \/ ~pageview.mounted
    \/ <<pageview'.pathname, Search(pageview'.query)>>
          # <<pageview.pathname, Search(pageview.query)>>

\* Neither the pathname nor the client is null after this step.
Live == pageview'.pathname # NullPathname /\ pageview'.client

\* C24, as stated: a render captures one $pageview if the pathname or the
\* query string changed (or on mount) while pathname and client are not
\* null, and none otherwise; the $current_url is origin + pathname,
\* followed by "?" and the query string of the route when it is not empty.
C24_Original ==
    [][pageview'.mounted =>
         /\ pageview'.captures = pageview.captures
               + (IF RouteChanged /\ Live THEN 1 ELSE 0)
         /\ pageview'.captures # pageview.captures =>
               pageview'.url =
                  [origin |-> Origin, pathname |-> pageview'.pathname,
                   mark |-> IF pageview'.query # << >> THEN "?" ELSE "",
                   search |-> pageview'.query]]_vars

\* C24, amended: a render captures one $pageview if the pathname or the
\* query string without its sensitive parameters changed (or on mount)
\* while pathname and client are not null, and none otherwise; the
\* $current_url is origin + pathname, followed by "?" and the query string
\* without its sensitive parameters when that is not empty.
C24_OnePageviewPerSanitizedRoute ==
    [][pageview'.mounted =>
         /\ pageview'.captures = pageview.captures
               + (IF SanitizedRouteChanged /\ Live THEN 1 ELSE 0)
         /\ pageview'.captures # pageview.captures =>
               /\ pageview'.url.origin = Origin
               /\ pageview'.url.pathname = pageview'.pathname
               /\ pageview'.url.search = Search(pageview'.query)
               /\ pageview'.url.mark = "?"
                     <=> Search(pageview'.query) # << >>]_vars

\* Three renders of a mounted component captured two pageviews, the last
\* one with a query string that is not the one of the route.
C24_Witness ==
    /\ pageview.mounted
    /\ pageview.renders = 3
    /\ pageview.captures = 2
    /\ pageview.url.mark = "?"
    /\ pageview.url.search # pageview.query

\* The parameter names of C26.
CredentialNames ==
    {"code", "token", "access_token", "refresh_token", "auth_token",
     "api_key"}

\* C26: the $current_url of every captured $pageview has no query parameter
\* with a credential-bearing name, and has every other query parameter of
\* the route, with its value, in the order of the route.
C26_NoCredentialInCurrentUrl ==
    [][pageview'.captures # pageview.captures =>
         LET Kept(p) == p[1] \notin CredentialNames
             u == pageview'.url.search
         IN /\ \A k \in DOMAIN u : u[k][1] \notin CredentialNames
            /\ u = SelectSeq(pageview'.query, Kept)]_vars

\* A route with two `code` parameters around a `q` parameter was captured
\* with the `q` parameter only.
C26_Witness ==
    /\ pageview.captures = 1
    /\ pageview.query = <<<<"code", "abc">>, <<"q", "test">>,
                          <<"code", "xyz">>>>
    /\ pageview.url.pathname = pageview.pathname
    /\ pageview.url.search = <<<<"q", "test">>>>

----------------------------------------------------------------------------
\* The component Providers.  Its effect has an empty dependency array: React
\* runs it once, after the first render of a mounted component, and only in
\* a browser.

\* The body of the effect; throws: posthog.init throws.
InitEffect(p, throws) ==
    IF window /\ processEnv["NODE_ENV"] # Word("test")
    THEN IF Truthy(env["NEXT_PUBLIC_POSTHOG_KEY"])
            /\ Truthy(env["NEXT_PUBLIC_POSTHOG_HOST"])
         THEN IF throws
              THEN [p EXCEPT !.inits = @ + 1, !.threw = TRUE,
                             !.logged = @ + 1]
              ELSE [p EXCEPT !.inits = @ + 1,
                             !.apiKey = env["NEXT_PUBLIC_POSTHOG_KEY"],
                             !.apiHost = env["NEXT_PUBLIC_POSTHOG_HOST"]]
         ELSE p
    ELSE p

\* The return statement: PostHogProvider around the children.
RenderProviders(p) ==
    [p EXCEPT !.mounted = TRUE, !.renders = @ + 1, !.children = TRUE]

\* First render of a Providers element, then its effect.
MountProviders(throws) ==
    /\ phase = "loaded"
    /\ ~providers.mounted
    /\ providers.renders < MaxRenders
    /\ LET p == RenderProviders(providers)
       IN providers' = IF window THEN InitEffect(p, throws) ELSE p
    /\ UNCHANGED <<envVars, authConfig, phVars, pageview, waiting>>

\* Variant: the effect has no dependency array and runs after every render.
RerenderProvidersRunsEffect ==
    /\ providers.mounted
    /\ providers.renders < MaxRenders
    /\ providers' = InitEffect(RenderProviders(providers), FALSE)
    /\ UNCHANGED <<envVars, authConfig, phVars, pageview, waiting>>

\* A later render of the mounted element.
RerenderProviders ==
    /\ providers.mounted
    /\ providers.renders < MaxRenders
    /\ providers' = RenderProviders(providers)
    /\ UNCHANGED <<envVars, authConfig, phVars, pageview, waiting>>

UnmountProviders ==
    /\ providers.mounted
    /\ providers' = [NoProviders EXCEPT !.renders = providers.renders]
    /\ UNCHANGED <<envVars, authConfig, phVars, pageview, waiting>>

\* The variables the component reads.
ProvidersNames ==
    {"NODE_ENV", "NEXT_PUBLIC_POSTHOG_KEY", "NEXT_PUBLIC_POSTHOG_HOST"}

ProvidersNext ==
    \/ \E n \in ProvidersNames : \E v \in ValuesOf(n) : SetEnv(n, v)
    \/ LoadEnvModule
    \/ \E throws \in BOOLEAN : MountProviders(throws)
    \/ RerenderProviders
    \/ UnmountProviders

ProvidersSpec == Init /\ [][ProvidersNext]_vars

C25_NotInTest ==
    /\ providers.mounted
    /\ providers.inits = 0
    /\ loadedEnv["NODE_ENV"] = Word("test")
    /\ processEnv["NODE_ENV"] = Word("test")
    /\ Truthy(env["NEXT_PUBLIC_POSTHOG_KEY"])
    /\ Truthy(env["NEXT_PUBLIC_POSTHOG_HOST"])

----------------------------------------------------------------------------
\* waitForDatabase(maxRetries, delay).  The function runs up to an await:
\* of the query of an attempt, or of the timer between two attempts.

\* The call, up to the await of the first attempt; the loop body is not
\* entered when 0 < maxRetries is false.
WaitForDatabase(maxRetries, delay) ==
    /\ waiting.state = "idle"
    /\ waiting' = [NotWaiting EXCEPT
                      !.maxRetries = maxRetries,
                      !.delay = delay,
                      !.state = IF 0 < maxRetries THEN "attempting"
                                ELSE "returned",
                      !.attempts = IF 0 < maxRetries THEN 1 ELSE 0]
    /\ UNCHANGED <<envVars, authConfig, phVars, pageview, providers>>

\* The query and client.end() resolve: the function returns.
AttemptSucceeds ==
    /\ waiting.state = "attempting"
    /\ waiting' = [waiting EXCEPT !.state = "returned"]
    /\ UNCHANGED <<envVars, authConfig, phVars, pageview, providers>>

\* Variant: the catch block compares i with maxRetries.
AttemptFailsOffByOne ==
    /\ waiting.state = "attempting"
    /\ waiting' = IF waiting.i = waiting.maxRetries
                  THEN [waiting EXCEPT !.state = "thrown",
                                       !.failures = @ + 1]
                  ELSE [waiting EXCEPT !.state = "sleeping",
                                       !.failures = @ + 1,
                                       !.sleeps = @ + 1,
                                       !.slept = @ + waiting.delay]
    /\ UNCHANGED <<envVars, authConfig, phVars, pageview, providers>>

\* The query or client.end() rejects: the catch block throws after the
\* last attempt, and otherwise starts the timer.
AttemptFails ==
    /\ waiting.state = "attempting"
    /\ waiting' = IF waiting.i = waiting.maxRetries - 1
                  THEN [waiting EXCEPT !.state = "thrown",
                                       !.failures = @ + 1]
                  ELSE [waiting EXCEPT !.state = "sleeping",
                                       !.failures = @ + 1,
                                       !.sleeps = @ + 1,
                                       !.slept = @ + waiting.delay]
    /\ UNCHANGED <<envVars, authConfig, phVars, pageview, providers>>

\* The timer fires: i++, the loop test, and the next attempt up to its
\* await.
SleepEnds ==
    /\ waiting.state = "sleeping"
    /\ waiting' = IF waiting.i + 1 < waiting.maxRetries
                  THEN [waiting EXCEPT !.state = "attempting",
                                       !.i = @ + 1,
                                       !.attempts = @ + 1]
                  ELSE [waiting EXCEPT !.state = "returned", !.i = @ + 1]
    /\ UNCHANGED <<envVars, authConfig, phVars, pageview, providers>>

\* The script runs under Node with the environment of the tests.
WaitInit ==
    /\ Init
    /\ ~window
    /\ processEnv = TestEnvironment

WaitNext ==
    \/ \E maxRetries \in 0..MaxRetries : \E delay \in Delays :
          WaitForDatabase(maxRetries, delay)
    \/ AttemptSucceeds
    \/ AttemptFails
    \/ SleepEnds

WaitSpec == WaitInit /\ [][WaitNext]_vars

\* Every attempt settles and every timer fires.
WaitLive ==
    /\ WaitSpec
    /\ WF_vars(AttemptSucceeds \/ AttemptFails)
    /\ WF_vars(SleepEnds)

\* The call has returned or thrown.
Terminated == waiting.state \in {"returned", "thrown"}

\* What C27 says of a state of the call.
WaitBounded ==
    /\ waiting.attempts <= waiting.maxRetries
    /\ waiting.state = "returned" /\ waiting.attempts > 0 =>
          waiting.failures = waiting.attempts - 1
    /\ waiting.state = "thrown" =>
          /\ waiting.attempts = waiting.maxRetries
          /\ waiting.failures = waiting.maxRetries
    /\ waiting.maxRetries > 0 /\ waiting.failures = waiting.maxRetries =>
          waiting.state = "thrown"
    /\ waiting.sleeps = IF waiting.state = "thrown"
                        THEN waiting.failures - 1
                        ELSE waiting.failures
    /\ waiting.slept = waiting.sleeps * waiting.delay
    /\ waiting.state = "attempting" =>
          waiting.sleeps = waiting.attempts - 1

\* C27: a call of waitForDatabase makes at most maxRetries attempts and
\* then has terminated; it returns at the first attempt that succeeds and
\* makes no attempt after it; it throws when the attempt number maxRetries
\* has failed; it has waited `delay` after every failed attempt but the
\* last one of maxRetries.
C27_WaitTerminates ==
    /\ []WaitBounded
    /\ [][Terminated => waiting' = waiting]_vars
    /\ (waiting.state # "idle") ~> Terminated

\* A call with maxRetries = 3 has thrown after three attempts and two
\* waits of 1000 ms.
C27_Witness ==
    /\ waiting.state = "thrown"
    /\ waiting.maxRetries = 3
    /\ waiting.attempts = 3
    /\ waiting.sleeps = 2
    /\ waiting.slept = 2000

====
